---- MODULE Spec2Model ----
(***************************************************************************)
(* Model of the Genius API client: Genius.__init__, Genius._get,           *)
(* Genius._search, Genius.get_artist, Genius.get_artists (apputil.py) and  *)
(* the module-level genius() function (genius_api.py), run against a       *)
(* transport that answers each request with a body, a fault, or never.     *)
(***************************************************************************)
EXTENDS Integers, Sequences, FiniteSets, TLC

\* Total number of search terms submitted to the library in one behaviour,
\* over all API calls (a batch of n terms uses n of them).
MaxTerms == 2

Terms == {"A", "B"}

(***************************************************************************)
(* Python / JSON values.  None and JSON null are the same value.           *)
(***************************************************************************)
JNull == [t |-> "null", v |-> 0]
JInt(n) == [t |-> "int", v |-> n]
JStr(s) == [t |-> "str", v |-> s]
JList(s) == [t |-> "list", v |-> s]
EmptyFn == [k \in {} |-> JNull]
JObj(f) == [t |-> "obj", v |-> f]
EmptyDict == JObj(EmptyFn)
EmptyList == JList(<<>>)

\* bool(v) is False
Falsy(x) ==
    \/ x.t = "null"
    \/ x.t = "int" /\ x.v = 0
    \/ x.t = "str" /\ x.v = ""
    \/ x.t = "list" /\ x.v = <<>>
    \/ x.t = "obj" /\ DOMAIN x.v = {}

\* a or b
PyOr(a, b) == IF Falsy(a) THEN b ELSE a

\* Outcome of evaluating a Python expression: a value or a raised exception.
Ok(x) == [ok |-> TRUE, val |-> x, exc |-> ""]
Raise(e) == [ok |-> FALSE, val |-> JNull, exc |-> e]

\* d.get(k, default): only a dict has .get
DictGet(d, k, default) ==
    IF d.t # "obj" THEN Raise("AttributeError")
    ELSE IF k \in DOMAIN d.v THEN Ok(d.v[k]) ELSE Ok(default)

\* s[0]
Index0(s) ==
    IF s.t = "list" THEN (IF s.v = <<>> THEN Raise("IndexError") ELSE Ok(s.v[1]))
    ELSE IF s.t = "obj" THEN Raise("KeyError")
    ELSE IF s.t = "str" THEN (IF s.v = "" THEN Raise("IndexError") ELSE Ok(s))
    ELSE Raise("TypeError")

\* d[k]
Subscript(d, k) ==
    IF d.t = "obj" THEN (IF k \in DOMAIN d.v THEN Ok(d.v[k]) ELSE Raise("KeyError"))
    ELSE Raise("TypeError")

\* s.rstrip("/") on a string held as a sequence of pieces
RECURSIVE RStripSlash(_)
RStripSlash(s) ==
    IF s # <<>> /\ s[Len(s)] = "/" THEN RStripSlash(SubSeq(s, 1, Len(s) - 1)) ELSE s

(***************************************************************************)
(* The transport: what a GET can come back with.                           *)
(***************************************************************************)
TransportFaults == {"ConnectionError", "HTTPError", "Timeout"}

Body(b) == [status |-> "ok", body |-> b]
\* a non-2xx response still carries a JSON body (an error document)
HttpError == [status |-> "http_error", body |-> [t |-> "obj", v |-> ("error" :> [t |-> "str", v |-> "e"])]]
ConnError == [status |-> "conn_error", body |-> JNull]
TimedOut == [status |-> "timeout", body |-> JNull]

Obj1(k, x) == JObj(k :> x)
Obj2(k1, x1, k2, x2) == JObj((k1 :> x1) @@ (k2 :> x2))
Obj3(k1, x1, k2, x2, k3, x3) == JObj((k1 :> x1) @@ (k2 :> x2) @@ (k3 :> x3))

PrimaryArtists ==
    { EmptyDict, Obj1("id", JNull),
      Obj2("id", JInt(1), "name", JStr("a1")), Obj1("id", JInt(2)) }
Results ==
    { EmptyDict, Obj1("primary_artist", JNull) }
    \cup { Obj1("primary_artist", p) : p \in PrimaryArtists }
HitShapes == { EmptyDict, Obj1("result", JNull) } \cup { Obj1("result", r) : r \in Results }
HitLists == { JNull, EmptyList } \cup { JList(<<h>>) : h \in HitShapes }
SearchBodies ==
    { EmptyDict, Obj1("response", JNull), Obj1("response", EmptyDict) }
    \cup { Obj1("response", Obj1("hits", h)) : h \in HitLists }

ArtistRecords ==
    { Obj3("id", JInt(1), "name", JStr("a1"), "followers_count", JInt(7)),
      Obj3("id", JInt(1), "name", JStr("a1"), "followers_count", JNull),
      Obj2("id", JInt(2), "name", JStr("a2")) }
DetailBodies ==
    { EmptyDict, Obj1("response", JNull), Obj1("response", EmptyDict),
      Obj1("response", Obj1("artist", JNull)), Obj1("response", Obj1("artist", EmptyDict)) }
    \cup { Obj1("response", Obj1("artist", a)) : a \in ArtistRecords }

\* What the transport can answer to a request of each kind.
Answers(kind) ==
    {HttpError, ConnError}
    \cup { Body(b) : b \in (IF kind = "detail" THEN DetailBodies ELSE SearchBodies) }

VARIABLES
    environ,      \* os.environ.get("ACCESS_TOKEN")
    args,         \* arguments of the pending Genius(...) call
    constructed,  \* "no", "ok" or "raised"
    client,       \* the Genius object: access_token, base_url, session headers
    pc,           \* "start", "idle", or the request the program is blocked in
    api,          \* the API call in progress or last finished
    terms,        \* search_terms of the call
    i,            \* index of the term being resolved
    rows,         \* rows accumulated by get_artists
    outcome,      \* "none", "running", "returned" or "raised"
    retval,       \* value returned by get_artist / genius
    exc,          \* exception raised by the call
    inflight,     \* requests dispatched and not yet completed
    log,          \* the requests and responses of the current API call
    calls,        \* completed get_artist calls of the single-item API
    fixed,        \* TRUE when the transport is a fixed fixture
    fixture,      \* the part of the fixture revealed so far
    budget        \* search terms still available to submit

vars == << environ, args, constructed, client, pc, api, terms, i, rows, outcome,
           retval, exc, inflight, log, calls, fixed, fixture, budget >>

NoResp == [status |-> "none", body |-> JNull]
NoClient == [access_token |-> JNull, base_url |-> <<>>, headers |-> EmptyDict]
NoArgs == [access_token |-> JNull, base_url |-> <<>>]

(***************************************************************************)
(* apputil.py                                                              *)
(***************************************************************************)
STATIC_TOKEN == JStr("static")

\* self.access_token = access_token or os.environ.get("ACCESS_TOKEN") or STATIC_TOKEN
ResolveToken(arg, env) == PyOr(PyOr(arg, env), STATIC_TOKEN)

\* the object __init__ builds once the token is known
NewClient(token, base_url) ==
    [ access_token |-> token,
      base_url |-> RStripSlash(base_url),
      headers |-> Obj1("Authorization", token) ]

\* path.startswith("http")
StartsWithHttp(path) == path # <<>> /\ path[1] \in {"http://api.genius.com", "https://api.genius.com"}

\* url = path if path.startswith("http") else f"{self.base_url}{path}"
Url(c, path) == IF StartsWithHttp(path) THEN path ELSE c.base_url \o path

\* self._session.get(url, params=params, timeout=10)
SessionGet(c, kind, path, q, per_page, id) ==
    [ kind |-> kind, url |-> Url(c, path), id |-> id, q |-> q, per_page |-> per_page,
      headers |-> c.headers, access_token |-> JNull, timeout |-> JInt(10) ]

\* self._get("/search", params={"q": search_term, "per_page": per_page}), per_page=1
SearchRequest(c, term) == SessionGet(c, "search", <<"/search">>, JStr(term), JInt(1), JNull)

\* self._get(f"/artists/{artist_id}")
DetailRequest(c, id) == SessionGet(c, "detail", <<"/artists/">>, JNull, JNull, id)

\* variant: _get keeps the URL it built as the client's base URL
ClientAfterGetKeepsUrl(c) == [c EXCEPT !.base_url = c.base_url \o <<"/search">>]

\* the state of the client after a request went through its session
ClientAfterGet(c) == c

\* the exception requests raises for a failed GET
FaultOf(resp) ==
    IF resp.status = "http_error" THEN "HTTPError"
    ELSE IF resp.status = "conn_error" THEN "ConnectionError"
    ELSE "Timeout"

\* variant: _get swallows a failed request and hands back an empty document
GetResultSwallow(resp) == IF resp.status = "ok" THEN Ok(resp.body) ELSE Ok(EmptyDict)

\* _get: resp.raise_for_status(); return resp.json()
GetResult(resp) == IF resp.status = "ok" THEN Ok(resp.body) ELSE Raise(FaultOf(resp))

\* _search: data.get("response", {}).get("hits", [])
SearchResult(resp) ==
    LET data == GetResult(resp) IN
    IF ~data.ok THEN data
    ELSE LET r == DictGet(data.val, "response", EmptyDict) IN
         IF ~r.ok THEN r ELSE DictGet(r.val, "hits", EmptyList)

\* hits[0].get("result", {}).get("primary_artist", {}) ; primary.get("id")
PrimaryId(hits) ==
    LET h == Index0(hits) IN
    IF ~h.ok THEN h
    ELSE LET r == DictGet(h.val, "result", EmptyDict) IN
         IF ~r.ok THEN r
         ELSE LET p == DictGet(r.val, "primary_artist", EmptyDict) IN
              IF ~p.ok THEN p ELSE DictGet(p.val, "id", JNull)

\* variant: the None check on artist_id is lost
IsNoneNever(x) == FALSE

\* x is None
IsNone(x) == x.t = "null"

\* variant: only a missing hits value counts as no hits (if hits is None)
NoHitsOnlyNone(hits) == hits.t = "null"

\* if not hits
NoHits(hits) == Falsy(hits)

Return(x) == [kind |-> "return", val |-> x, exc |-> ""]
Throw(e) == [kind |-> "raise", val |-> JNull, exc |-> e]
Request(id) == [kind |-> "request", val |-> id, exc |-> ""]

\* get_artist from the search response up to its return or its detail request
AfterSearch(resp) ==
    LET hits == SearchResult(resp) IN
    IF ~hits.ok THEN Throw(hits.exc)
    ELSE IF NoHits(hits.val) THEN Return(EmptyDict)
    ELSE LET artist_id == PrimaryId(hits.val) IN
         IF ~artist_id.ok THEN Throw(artist_id.exc)
         ELSE IF IsNone(artist_id.val) THEN Return(EmptyDict)
         ELSE Request(artist_id.val)

\* get_artist from the detail response: artist_json.get("response", {}).get("artist", {})
AfterDetail(resp) ==
    LET artist_json == GetResult(resp) IN
    IF ~artist_json.ok THEN Throw(artist_json.exc)
    ELSE LET r == DictGet(artist_json.val, "response", EmptyDict) IN
         IF ~r.ok THEN Throw(r.exc)
         ELSE LET a == DictGet(r.val, "artist", EmptyDict) IN
              IF ~a.ok THEN Throw(a.exc) ELSE Return(a.val)

\* variant: followers_count defaults to 0 (artist.get("followers_count", 0))
RowOfZeroFollowers(term, artist) ==
    LET name == DictGet(artist, "name", JNull)
        id == DictGet(artist, "id", JNull)
        followers == DictGet(artist, "followers_count", JInt(0))
    IN IF ~name.ok THEN [ok |-> FALSE, exc |-> name.exc, row |-> <<>>]
       ELSE [ ok |-> TRUE, exc |-> "",
              row |-> << [ search_term |-> term, artist_name |-> name.val,
                           artist_id |-> id.val, followers_count |-> followers.val ] >> ]

\* the dict get_artists appends for one term
RowOf(term, artist) ==
    LET name == DictGet(artist, "name", JNull)
        id == DictGet(artist, "id", JNull)
        followers == DictGet(artist, "followers_count", JNull)
    IN IF ~name.ok THEN [ok |-> FALSE, exc |-> name.exc, row |-> <<>>]
       ELSE [ ok |-> TRUE, exc |-> "",
              row |-> << [ search_term |-> term, artist_name |-> name.val,
                           artist_id |-> id.val, followers_count |-> followers.val ] >> ]

\* for term in search_terms: the position after the current term
NextIndex(k) == k + 1

(***************************************************************************)
(* genius_api.py                                                           *)
(***************************************************************************)
ACCESS_TOKEN == JStr("static")

\* requests.get(genius_search_url), per_page=15
GeniusRequest(term) ==
    [ kind |-> "genius", url |-> <<"http://api.genius.com", "/search">>, id |-> JNull,
      q |-> JStr(term), per_page |-> JInt(15), headers |-> EmptyDict,
      access_token |-> ACCESS_TOKEN, timeout |-> JNull ]

\* response.json()['response']['hits']
GeniusResult(resp) ==
    IF resp.status \in {"conn_error", "timeout"} THEN Raise(FaultOf(resp))
    ELSE LET r == Subscript(resp.body, "response") IN
         IF ~r.ok THEN r ELSE Subscript(r.val, "hits")

(***************************************************************************)
(* The transport's record of the current API call.                         *)
(***************************************************************************)
Send(idx, req) == [ev |-> "send", idx |-> idx, req |-> req, resp |-> NoResp]
Recv(idx, req, resp) == [ev |-> "recv", idx |-> idx, req |-> req, resp |-> resp]

\* A fixed fixture answers equal requests equally.
FixtureAllows(req, resp) == fixed => \A f \in fixture : f.req = req => f.resp = resp
Reveal(req, resp) == IF fixed THEN fixture \cup {[req |-> req, resp |-> resp]} ELSE fixture

BaseUrls == { <<"https://api.genius.com">>, <<"https://api.genius.com", "/">> }
TokenArgs == { JNull, JStr(""), JStr("argtok") }
EnvTokens == { JNull, JStr("envtok") }

RECURSIVE SeqsUpTo(_, _)
SeqsUpTo(S, n) ==
    IF n = 0 THEN { <<>> }
    ELSE LET shorter == SeqsUpTo(S, n - 1) IN
         shorter \cup { Append(q, x) : q \in { r \in shorter : Len(r) = n - 1 }, x \in S }

Init ==
    /\ environ \in EnvTokens
    /\ args \in [access_token : TokenArgs, base_url : BaseUrls]
    /\ fixed \in BOOLEAN
    /\ constructed = "no"
    /\ client = NoClient
    /\ pc = "start"
    /\ api = "none"
    /\ terms = <<>>
    /\ i = 0
    /\ rows = <<>>
    /\ outcome = "none"
    /\ retval = JNull
    /\ exc = ""
    /\ inflight = <<>>
    /\ log = <<>>
    /\ calls = <<>>
    /\ fixture = {}
    /\ budget = MaxTerms

\* Exploration bound: against a free transport every behaviour makes one API
\* call of any kind; against a fixed fixture it makes get_artist calls, one
\* after another on the same client.
FirstCall == outcome = "none" /\ ~fixed
RepeatCall == fixed

\* Genius.__init__
Construct ==
    /\ pc = "start"
    /\ LET token == ResolveToken(args.access_token, environ) IN
       IF Falsy(token)
       THEN /\ constructed' = "raised"
            /\ exc' = "ValueError"
            /\ client' = client
       ELSE /\ constructed' = "ok"
            /\ exc' = ""
            /\ client' = NewClient(token, args.base_url)
    /\ args' = NoArgs
    /\ api' = "__init__"
    /\ pc' = "idle"
    /\ UNCHANGED << environ, terms, i, rows, outcome, retval, inflight, log, calls,
                    fixed, fixture, budget >>

\* A caller invokes get_artist(term): the call runs up to its search request.
CallGetArtist ==
    /\ pc = "idle" /\ constructed = "ok" /\ budget >= 1 /\ (FirstCall \/ RepeatCall)
    /\ \E term \in Terms :
        /\ terms' = <<term>>
        /\ inflight' = <<SearchRequest(client, term)>>
        /\ log' = <<Send(1, SearchRequest(client, term))>>
    /\ api' = "get_artist"
    /\ i' = 1
    /\ rows' = <<>>
    /\ outcome' = "running"
    /\ retval' = JNull
    /\ exc' = ""
    /\ pc' = "search"
    /\ budget' = budget - 1
    /\ UNCHANGED << environ, args, constructed, client, calls, fixed, fixture >>

\* A caller invokes get_artists(search_terms): rows = [], then the first term's
\* search request; an empty list returns the empty DataFrame at once.
CallGetArtists ==
    /\ pc = "idle" /\ constructed = "ok" /\ FirstCall
    /\ \E ts \in SeqsUpTo(Terms, budget) :
        /\ terms' = ts
        /\ budget' = budget - Len(ts)
        /\ IF ts = <<>>
           THEN /\ inflight' = <<>> /\ log' = <<>> /\ i' = 0
                /\ outcome' = "returned" /\ pc' = "idle"
           ELSE /\ inflight' = <<SearchRequest(client, ts[1])>>
                /\ log' = <<Send(1, SearchRequest(client, ts[1]))>>
                /\ i' = 1
                /\ outcome' = "running" /\ pc' = "search"
    /\ api' = "get_artists"
    /\ rows' = <<>>
    /\ retval' = JNull
    /\ exc' = ""
    /\ UNCHANGED << environ, args, constructed, client, calls, fixed, fixture >>

\* A caller invokes the module-level genius(search_term).
CallGenius ==
    /\ pc = "idle" /\ budget >= 1 /\ FirstCall
    /\ \E term \in Terms :
        /\ terms' = <<term>>
        /\ inflight' = <<GeniusRequest(term)>>
        /\ log' = <<Send(1, GeniusRequest(term))>>
    /\ api' = "genius"
    /\ i' = 1
    /\ rows' = <<>>
    /\ outcome' = "running"
    /\ retval' = JNull
    /\ exc' = ""
    /\ pc' = "genius"
    /\ budget' = budget - 1
    /\ UNCHANGED << environ, args, constructed, client, calls, fixed, fixture >>

\* get_artist has returned or raised inside get_artists: the rest of the loop
\* body, then the next term's search request or the return of the DataFrame.
BatchContinue(step, log1) ==
    LET r == RowOf(terms[i], step.val) IN
    IF step.kind = "raise" \/ ~r.ok
    THEN /\ outcome' = "raised"
         /\ exc' = IF step.kind = "raise" THEN step.exc ELSE r.exc
         /\ pc' = "idle"
         /\ inflight' = <<>>
         /\ log' = log1
         /\ UNCHANGED << i, rows >>
    ELSE /\ rows' = rows \o r.row
         /\ exc' = ""
         /\ IF NextIndex(i) <= Len(terms)
            THEN /\ i' = NextIndex(i)
                 /\ inflight' = <<SearchRequest(client', terms[NextIndex(i)])>>
                 /\ log' = Append(log1, Send(NextIndex(i), SearchRequest(client', terms[NextIndex(i)])))
                 /\ pc' = "search"
                 /\ outcome' = "running"
            ELSE /\ i' = i
                 /\ inflight' = <<>>
                 /\ log' = log1
                 /\ pc' = "idle"
                 /\ outcome' = "returned"

\* The request the program is blocked in completes with resp; the program runs
\* on to its next request or to the end of the API call.
Complete(resp) ==
    LET req == inflight[1]
        log1 == Append(log, Recv(i, req, resp))
    IN
    /\ fixture' = Reveal(req, resp)
    /\ IF pc = "genius"
       THEN LET r == GeniusResult(resp) IN
            /\ outcome' = IF r.ok THEN "returned" ELSE "raised"
            /\ retval' = r.val
            /\ exc' = r.exc
            /\ pc' = "idle"
            /\ inflight' = <<>>
            /\ log' = log1
            /\ UNCHANGED << client, i, rows, calls >>
       ELSE LET step == IF pc = "search" THEN AfterSearch(resp) ELSE AfterDetail(resp) IN
            /\ client' = ClientAfterGet(client)
            /\ IF step.kind = "request"
               THEN /\ inflight' = <<DetailRequest(client', step.val)>>
                    /\ log' = Append(log1, Send(i, DetailRequest(client', step.val)))
                    /\ pc' = "detail"
                    /\ UNCHANGED << i, rows, outcome, retval, exc, calls >>
               ELSE IF api = "get_artist"
               THEN /\ outcome' = IF step.kind = "return" THEN "returned" ELSE "raised"
                    /\ retval' = step.val
                    /\ exc' = step.exc
                    /\ calls' = Append(calls, [term |-> terms[i], kind |-> step.kind,
                                               val |-> step.val, exc |-> step.exc])
                    /\ pc' = "idle"
                    /\ inflight' = <<>>
                    /\ log' = log1
                    /\ UNCHANGED << i, rows >>
               ELSE /\ BatchContinue(step, log1)
                    /\ UNCHANGED << retval, calls >>
    /\ UNCHANGED << environ, args, constructed, api, terms, fixed, budget >>

\* The transport answers the request in flight.
Respond ==
    /\ inflight # <<>>
    /\ \E resp \in Answers(inflight[1].kind) :
        /\ FixtureAllows(inflight[1], resp)
        /\ Complete(resp)

\* requests gives up on a request only when a timeout was passed
HasTimeout(req) == req.timeout.t = "int"

\* The transport never answers; the request's timeout, if it has one, expires.
Timeout ==
    /\ inflight # <<>>
    /\ HasTimeout(inflight[1])
    /\ FixtureAllows(inflight[1], TimedOut)
    /\ Complete(TimedOut)

Next ==
    \/ Construct
    \/ CallGetArtist
    \/ CallGetArtists
    \/ CallGenius
    \/ Respond
    \/ Timeout

Spec == Init /\ [][Next]_vars

(***************************************************************************)
(* Properties                                                              *)
(***************************************************************************)
IsFault(resp) == resp.status \in {"http_error", "conn_error", "timeout"}
Field(d, k) == IF k \in DOMAIN d.v THEN d.v[k] ELSE JNull
Has(d, k) == d.t = "obj" /\ k \in DOMAIN d.v
Sent(k, idx, kind) == log[k].ev = "send" /\ log[k].idx = idx /\ log[k].req.kind = kind
Received(k, idx, kind) == log[k].ev = "recv" /\ log[k].idx = idx /\ log[k].req.kind = kind
NullRow(r) == r.artist_name = JNull /\ r.artist_id = JNull /\ r.followers_count = JNull
Finished == outcome \in {"returned", "raised"}

\* the search response carries a response object with no hit in it
ZeroHits(resp) ==
    /\ resp.status = "ok"
    /\ Has(resp.body, "response")
    /\ resp.body.v["response"].t = "obj"
    /\ Field(resp.body.v["response"], "hits") \in {EmptyList, JNull}

\* the search response carries one hit
FirstHit(resp) == resp.body.v["response"].v["hits"].v[1]
OneHit(resp) ==
    /\ resp.status = "ok"
    /\ Has(resp.body, "response")
    /\ Has(resp.body.v["response"], "hits")
    /\ resp.body.v["response"].v["hits"].t = "list"
    /\ resp.body.v["response"].v["hits"].v # <<>>

\* the first hit's primary-artist reference, or its id, is missing
MissingRef(resp) ==
    /\ OneHit(resp)
    /\ Has(FirstHit(resp), "result")
    /\ FirstHit(resp).v["result"].t = "obj"
    /\ LET p == Field(FirstHit(resp).v["result"], "primary_artist") IN
       \/ p = JNull
       \/ p.t = "obj" /\ Field(p, "id") = JNull

\* the first hit names a primary artist by id
HitId(resp) == FirstHit(resp).v["result"].v["primary_artist"].v["id"]
HasId(resp) ==
    /\ OneHit(resp)
    /\ Has(FirstHit(resp), "result")
    /\ Has(FirstHit(resp).v["result"], "primary_artist")
    /\ Has(FirstHit(resp).v["result"].v["primary_artist"], "id")
    /\ HitId(resp) # JNull

\* the detail response carries an artist record
ArtistOf(resp) == resp.body.v["response"].v["artist"]
HasArtist(resp) ==
    /\ resp.status = "ok"
    /\ Has(resp.body, "response")
    /\ Has(resp.body.v["response"], "artist")
    /\ ArtistOf(resp).t = "obj"

\* the detail response lacks the nested response.artist entity
LacksArtist(resp) ==
    /\ resp.status = "ok"
    /\ \/ ~Has(resp.body, "response")
       \/ /\ resp.body.v["response"].t = "obj"
          /\ Field(resp.body.v["response"], "artist") = JNull

\* C1: when get_artists ends (normally, or by a transport fault of some term),
\* it has returned one row per input term, row k carrying the k-th term.
C1_RowPerTerm ==
    (api = "get_artists" /\ Finished /\ (outcome = "raised" => exc \in TransportFaults))
    => /\ outcome = "returned"
       /\ Len(rows) = Len(terms)
       /\ \A k \in DOMAIN rows : rows[k].search_term = terms[k]

\* C2: a transport fault on a request of term k inside get_artists leaves the
\* batch returning normally, complete, with row k null-valued.
C2_FaultIsolated ==
    \A n \in DOMAIN log :
        (api = "get_artists" /\ log[n].ev = "recv" /\ IsFault(log[n].resp))
        => /\ outcome # "raised"
           /\ Len(rows) >= log[n].idx
           /\ NullRow(rows[log[n].idx])
           /\ (outcome = "returned" => Len(rows) = Len(terms))

\* C3: constructing a client with no explicit token and no ACCESS_TOKEN in the
\* environment raises, and no request has been sent.
C3_NoCredentialFails ==
    [][ (pc = "start" /\ Falsy(args.access_token) /\ Falsy(environ))
        => (constructed' = "raised" /\ log' = <<>>) ]_vars

\* C4: a search answered with zero hits makes get_artist return the empty record
\* with no detail request for that term, and gives the term an all-null row.
C4_ZeroHitsUnresolved ==
    \A n \in DOMAIN log :
        (log[n].ev = "recv" /\ log[n].req.kind = "search" /\ ZeroHits(log[n].resp))
        => /\ \A m \in DOMAIN log : ~Sent(m, log[n].idx, "detail")
           /\ api = "get_artist" => (outcome = "returned" /\ retval = EmptyDict)
           /\ api = "get_artists" =>
                /\ Len(rows) >= log[n].idx
                /\ rows[log[n].idx].search_term = terms[log[n].idx]
                /\ NullRow(rows[log[n].idx])
                /\ ~(outcome = "raised" /\ i = log[n].idx)

C4_Witness ==
    /\ api = "get_artists" /\ outcome = "returned" /\ Len(rows) = 2
    /\ \E n \in DOMAIN log : Received(n, 1, "search") /\ ZeroHits(log[n].resp)
                             /\ log[n].resp.body.v["response"].v = ("hits" :> EmptyList)
    /\ ~NullRow(rows[2])

\* C5: with a missing primary-artist reference or id, or a detail response
\* lacking response.artist, get_artist returns the empty record and does not
\* raise; with the reference or id missing no detail request is sent.
C5_MissingRefUnresolved ==
    \A n \in DOMAIN log :
        /\ (api = "get_artist" /\ Received(n, 1, "search") /\ MissingRef(log[n].resp))
           => /\ outcome = "returned" /\ retval = EmptyDict
              /\ \A m \in DOMAIN log : ~Sent(m, 1, "detail")
        /\ (api = "get_artist" /\ Received(n, 1, "detail") /\ LacksArtist(log[n].resp))
           => (outcome = "returned" /\ retval = EmptyDict)

\* C6: every request in flight carries a timeout, so a transport that never
\* answers still ends the request as a fault.
C6_EveryRequestHasTimeout ==
    \A n \in DOMAIN inflight : inflight[n].timeout # JNull

\* C7: in the single-item API a transport fault on the search or the detail
\* request ends get_artist by raising that fault; nothing is returned.
C7_FaultPropagates ==
    \A n \in DOMAIN log :
        (api = "get_artist" /\ log[n].ev = "recv" /\ IsFault(log[n].resp))
        => /\ outcome = "raised"
           /\ exc \in TransportFaults
           /\ retval = JNull
           /\ calls[Len(calls)].kind = "raise"

C7_Witness ==
    /\ api = "get_artist" /\ outcome = "raised" /\ exc = "HTTPError"
    /\ \E n \in DOMAIN log : Received(n, 1, "detail") /\ log[n].resp.status = "http_error"

\* C8: against a fixed fixture, get_artist calls with the same term on the same
\* client end the same way with the same output, and the client's token, base
\* URL and session headers stay as construction left them.
C8_Idempotent ==
    /\ [](fixed => \A a, b \in DOMAIN calls :
                      calls[a].term = calls[b].term => calls[a] = calls[b])
    /\ [][constructed = "ok" => client' = client]_vars

C8_Witness ==
    /\ fixed /\ Len(calls) >= 2 /\ pc = "idle"
    /\ calls[1].term = calls[2].term
    /\ calls[1].kind = "return" /\ calls[1].val \in ArtistRecords

\* C9: every row of get_artists carries its own term and is taken field by
\* field from the detail record fetched for that term's primary artist (null
\* where the record omits the field), or is all-null when no record was resolved.
C9_RowFromOwnRecord ==
    api = "get_artists" =>
    \A k \in DOMAIN rows :
        /\ rows[k].search_term = terms[k]
        /\ IF \E n \in DOMAIN log : Received(n, k, "detail") /\ HasArtist(log[n].resp)
           THEN \E n \in DOMAIN log :
                  /\ Received(n, k, "detail") /\ HasArtist(log[n].resp)
                  /\ \E m \in DOMAIN log :
                        /\ Received(m, k, "search") /\ HasId(log[m].resp)
                        /\ log[n].req.id = HitId(log[m].resp)
                  /\ rows[k].artist_id = Field(ArtistOf(log[n].resp), "id")
                  /\ rows[k].artist_name = Field(ArtistOf(log[n].resp), "name")
                  /\ rows[k].followers_count = Field(ArtistOf(log[n].resp), "followers_count")
           ELSE NullRow(rows[k])

C9_Witness ==
    /\ api = "get_artists" /\ outcome = "returned" /\ Len(rows) = 2
    /\ rows[1].artist_id = JInt(2) /\ rows[1].followers_count = JNull
    /\ rows[2].artist_id = JInt(1) /\ rows[2].followers_count = JInt(7)

\* C10: the requests of get_artists are strictly sequential: each request is
\* answered before the next is sent, every term gets one search request first
\* and at most one detail request after it (only for the primary-artist id its
\* search produced), and the terms are served in input order.
C10_SequentialOrder ==
    api \in {"get_artist", "get_artists"} =>
    /\ Len(inflight) <= 1
    /\ (inflight # <<>>) <=> (Len(log) % 2 = 1)
    /\ \A n \in DOMAIN log :
        /\ (n % 2 = 1) => log[n].ev = "send"
        /\ (n % 2 = 0) => /\ log[n].ev = "recv"
                          /\ log[n].req = log[n - 1].req
                          /\ log[n].idx = log[n - 1].idx
        /\ (n = 1) => Sent(n, 1, "search")
        /\ (log[n].ev = "send" /\ n > 1 /\ log[n].req.kind = "search")
            => log[n].idx = log[n - 1].idx + 1
        /\ (log[n].ev = "send" /\ log[n].req.kind = "search")
            => /\ log[n].idx \in DOMAIN terms
               /\ log[n].req.q = JStr(terms[log[n].idx])
        /\ (log[n].ev = "send" /\ log[n].req.kind = "detail")
            => /\ n > 2
               /\ Received(n - 1, log[n].idx, "search")
               /\ HasId(log[n - 1].resp)
               /\ log[n].req.id = HitId(log[n - 1].resp)
    /\ (api = "get_artists" /\ outcome = "returned")
        => \A k \in DOMAIN terms : \E n \in DOMAIN log : Sent(n, k, "search")

C10_Witness ==
    /\ api = "get_artists" /\ outcome = "returned" /\ Len(terms) = 2
    /\ Len(log) = 8

====
